---- MODULE Spec2Model ----
(***************************************************************************)
(* Message protocol state machine of the browser chat clients.             *)
(*                                                                         *)
(*   SpecStream, SpecTools : frontend/assets/app-mcp.js (module globals,   *)
(*             socket and timer callbacks, click handlers, renderMessages) *)
(*             against a server that streams text chunks, resp. one that   *)
(*             sends the agent's JSON envelopes                            *)
(*   SpecApp : frontend/assets/loading.js  (appState of the redesigned UI) *)
(*                                                                         *)
(* A message text is a sequence of tokens, one token per wire payload or   *)
(* typed text; string concatenation (+=) is sequence concatenation.  The   *)
(* payload alphabet is chosen so that the concatenation of two or more     *)
(* payloads is never valid JSON, as is the case for the JSON envelopes and *)
(* the plain words the servers send.                                       *)
(***************************************************************************)
EXTENDS Integers, Sequences, FiniteSets, TLC

\* ----------------------------------------------------------------------
\* Bounds
\* ----------------------------------------------------------------------
\* tokens (payloads and typed texts) the client holds, WebSocket objects that
\* exist at a time, session ids generated
StreamTokens == 2
StreamSockets == 1
MaxTokens == 3
MaxSockets == 2
MaxSessions == 2
\* loading.js: messages, tokens and result blocks the page holds, WebSocket
\* objects that exist at a time, conversations created, reconnect timers armed
AppTokens == 4
AppSockets == 2
MaxConversations == 2
MaxReconnects == 2
\* loading.js: payload texts the server sends for a conversation
MaxInbound == 2
\* loading.js: console.error calls after which no conversation is loaded any more
MaxConsoleErrors == 3
\* loading.js: tools /mcp/tools lists, files attached, calls of createVectorStore
MaxTools == 2
MaxFiles == 2
MaxCreateCalls == 2

\* ----------------------------------------------------------------------
\* State
\* ----------------------------------------------------------------------
VARIABLES
    \* app-mcp.js
    messageHistory,             \* the array of message objects
    sessionId,
    currentMode,
    currentStreamingMessage,    \* reference to a message object, 0 is null
    detached,                   \* the referenced object once it left the array
    streamingTimeout,           \* timer handle, 0 is null
    timers,                     \* idle timers that are armed
    socket,                     \* reference to the current WebSocket
    socks,                      \* the WebSocket objects that can still raise events
    localStorage,
    histReqs,                   \* session ids with a /history fetch in flight
    chatBox,                    \* children of #chat-box as left by renderMessages
    run,                        \* the undisturbed stream in progress (history variable)
    modeMark,                   \* entries received before the last mode change, when
                                \* a tool call is among them (history variable)
    sent,                       \* the payload the handler that ran last gave to
                                \* socket.send, NoPayload when it sent nothing
    \* loading.js, appState()
    messages,
    conversations,              \* the ids of the conversation objects, in order
    currentConversation,        \* id of the current conversation, 0 is null
    currentMessage,             \* text of the input box
    isLoading,
    ws,                         \* reference to the current WebSocket
    wsocks,                     \* the WebSocket objects that can still raise events
    reconnects,                 \* reconnect timers that are armed
    toolResults,                \* result blocks inserted into each tool-call div
    now,                        \* Date.now()
    teardownTimers,             \* the armed reconnect timers that stem from the close
                                \* of a socket setupWebSocket closed (history variable)
    inbound,                    \* the payload texts the server sends for the conversation
    delivered,                  \* how many of them the socket has delivered
    consoleErrors,              \* number of console.error calls of the message parsers
    mcpTools,                   \* the tools of the Tools panel, each with its enabled flag
    storedTools,                \* localStorage item enabledTools: the names stored
    attachedFiles,              \* the files attached to the next message or upload
    activeVectorStore,          \* name of the selected vector store, "" for null
    uploads,                    \* requests to /api/upload-to-vectorstore in flight
    createCalls,                \* calls of createVectorStore so far (history variable)
    convReq,                    \* the /api/conversations request of init() is in flight
    msgReqs,                    \* conversations whose loadMessages request is in flight
    sendBtnLoading              \* send-btn of the legacy page is in its loading state

mcpVars == <<messageHistory, sessionId, currentMode, currentStreamingMessage, detached,
             streamingTimeout, timers, socket, socks, localStorage, histReqs,
             chatBox, run, modeMark, sent>>

appVars == <<messages, conversations, currentConversation, currentMessage, isLoading,
             ws, wsocks, reconnects, toolResults, now, teardownTimers>>

envVars == <<inbound, delivered, consoleErrors>>

panelVars == <<mcpTools, storedTools, attachedFiles, activeVectorStore, uploads,
               createCalls>>

convVars == <<convReq, msgReqs>>

btnVars == <<sendBtnLoading>>

vars == <<mcpVars, appVars, envVars, panelVars, convVars, btnVars>>

\* ----------------------------------------------------------------------
\* Helpers
\* ----------------------------------------------------------------------
Min(S) == CHOOSE x \in S : \A y \in S : x <= y

\* a handle or slot not in use
Fresh(used) == Min((1..(Cardinality(used) + 1)) \ used)

\* wire payloads
Payload(k, ids, t) == [kind |-> k, ids |-> ids, text |-> t]
AskPayloads == {Payload("text", <<>>, "a"), Payload("text", <<>>, "b")}
ReactPayloads == {Payload("calls", <<1>>, ""), Payload("result", <<1>>, "r")}
UserTexts == {"hi"}
ToolIds == {1}

\* text typed by the user
UserTok(t) == Payload("user", <<>>, t)

NoSocket == [state |-> "NONE", endpoint |-> "", session |-> 0]

\* ----------------------------------------------------------------------
\* app-mcp.js : renderMessages
\* ----------------------------------------------------------------------
\* JSON.parse(msg) succeeds: the text is exactly one JSON envelope
IsJson(msg) == Len(msg) = 1 /\ msg[1].kind \in {"calls", "result"}

\* the id has a tool call among the entries of hist
HasCall(hist, id) ==
    \E k \in DOMAIN hist :
        /\ hist[k].sender = "agent" /\ IsJson(hist[k].msg)
        /\ hist[k].msg[1].kind = "calls"
        /\ \E j \in DOMAIN hist[k].msg[1].ids : hist[k].msg[1].ids[j] = id

\* one child of #chat-box, made from the k-th entry; toolDiv is the id of the
\* tool-call div inside it
Div(k, sender, body, toolDiv, streaming) ==
    [entry |-> k, sender |-> sender, body |-> body, toolDiv |-> toolDiv,
     results |-> <<>>, indicator |-> streaming]

\* document.getElementById(id) over the part of the chat box built so far
GetElementById(box, id) ==
    IF \E i \in DOMAIN box : box[i].toolDiv = id
    THEN Min({i \in DOMAIN box : box[i].toolDiv = id})
    ELSE 0

\* msg_json.tools.messages.forEach of the k-th entry, from the j-th tool
\* message on
RECURSIVE RenderToolMessages(_, _, _, _)
RenderToolMessages(box, k, tok, j) ==
    IF j > Len(tok.ids) THEN box
    ELSE LET parent == GetElementById(box, tok.ids[j])
             res == [entry |-> k, id |-> tok.ids[j], text |-> tok.text]
         IN RenderToolMessages(
                IF parent # 0 THEN [box EXCEPT ![parent].results = Append(@, res)]
                ELSE box,
                k, tok, j + 1)

\* body of messageHistory.forEach for the k-th entry e
RenderEntry(box, k, e) ==
    IF e.sender = "agent" /\ IsJson(e.msg)
    THEN IF e.msg[1].kind = "calls"
         THEN Append(box, Div(k, "agent", <<>>, e.msg[1].ids[Len(e.msg[1].ids)], FALSE))
         ELSE RenderToolMessages(box, k, e.msg[1], 1)
    ELSE Append(box, Div(k, e.sender, e.msg, 0, e.sender = "agent" /\ e.streaming))

RECURSIVE RenderFrom(_, _, _)
RenderFrom(hist, k, box) ==
    IF k > Len(hist) THEN box
    ELSE RenderFrom(hist, k + 1, RenderEntry(box, k, hist[k]))

RenderMessages(hist) == RenderFrom(hist, 1, <<>>)

\* ----------------------------------------------------------------------
\* app-mcp.js : objects, timers, sockets
\* ----------------------------------------------------------------------
\* A message object that is an element of messageHistory is referenced by its
\* index: the array is only pushed to, or replaced as a whole.  When the array
\* is replaced, the object currentStreamingMessage refers to lives on outside
\* it, in detached.
Entry(msg, sender, streaming) == [msg |-> msg, sender |-> sender, streaming |-> streaming]
NoObj == Entry(<<>>, "", FALSE)
Detached == -1

\* the pointer and the detached object after messageHistory = <new array>
DetachRef(c) == IF c = 0 THEN 0 ELSE Detached
DetachObj(hist, det, c) == IF c = 0 THEN NoObj ELSE IF c = Detached THEN det ELSE hist[c]

\* currentStreamingMessage.msg += chunk
AppendChunk(msg, c) == msg \o <<c>>

\* a variant that leaves the flag set
FinalizeStreamKeepsFlag(e) == e

\* currentStreamingMessage.streaming = false
FinalizeStream(e) == [e EXCEPT !.streaming = FALSE]

\* number of payloads and typed texts held by the client
RECURSIVE Tokens(_)
Tokens(hist) == IF hist = <<>> THEN 0 ELSE Len(Head(hist).msg) + Tokens(Tail(hist))
HasRoom(cap) == Tokens(messageHistory) + Len(detached.msg) < cap

\* a variant that cancels nothing
ClearTimeoutKeepsTimer(ts, h) == ts

\* clearTimeout(h)
ClearTimeout(ts, h) == ts \ {h}

FreeSlots(sk) == {i \in DOMAIN sk : sk[i].state = "NONE"}

\* A WebSocket that is CLOSING or CLOSED delivers no message event, and the
\* close and error handlers only log: once `socket` no longer refers to it, it
\* is dropped from socks.
Release(sk, cur) ==
    [i \in DOMAIN sk |-> IF i # cur /\ sk[i].state \in {"CLOSING", "CLOSED"}
                         THEN NoSocket ELSE sk[i]]

\* connectWebSocket(): new value of <<socks, socket>>; the new socket is opened
\* for session sid
ConnectWebSocket(sk, cur, mode, sid) ==
    LET closed == IF cur # 0 /\ sk[cur].state = "OPEN"
                  THEN [sk EXCEPT ![cur].state = "CLOSING"]
                  ELSE sk
        n == Min(FreeSlots(Release(closed, 0)))
    IN <<[Release(closed, 0) EXCEPT ![n] =
            [state |-> "CONNECTING",
             endpoint |-> IF mode = "agent" THEN "/ws/react" ELSE "/ws/ask",
             session |-> sid]],
         n>>

\* room for one more WebSocket object
CanConnect(sk, cur) ==
    \/ FreeSlots(sk) # {}
    \/ cur # 0 /\ sk[cur].state \in {"OPEN", "CLOSED"}

\* the history variable: the chunks received since the last user action, as
\* long as they went to one stream
NoRun == [phase |-> "none", chunks |-> <<>>, startLen |-> 0]
Disturb(r) == NoRun

\* ----------------------------------------------------------------------
\* app-mcp.js : initial state, after the DOMContentLoaded handler has run
\* ----------------------------------------------------------------------
\* no payload
NoPayload == [message |-> "", session_id |-> 0, mode |-> ""]

InitMcp(slots) ==
    /\ messageHistory = <<>>
    /\ sessionId = 1
    /\ currentMode \in {"agent", "ask"}
    /\ currentStreamingMessage = 0
    /\ detached = NoObj
    /\ streamingTimeout = 0
    /\ timers = {}
    /\ LET c == ConnectWebSocket([i \in 1..slots |-> NoSocket], 0, currentMode, sessionId)
       IN socks = c[1] /\ socket = c[2]
    /\ localStorage = [chat_session_id |-> sessionId, chat_mode |-> currentMode]
    /\ histReqs = {sessionId}
    /\ chatBox = <<>>
    /\ run = NoRun
    /\ modeMark = 0
    /\ sent = NoPayload

\* ----------------------------------------------------------------------
\* app-mcp.js : handlers
\* ----------------------------------------------------------------------
\* socket.onopen of socket i
SocketOpen(i) ==
    /\ socks[i].state = "CONNECTING"
    /\ socks' = [socks EXCEPT ![i].state = "OPEN"]
    /\ sent' = NoPayload
    /\ UNCHANGED <<messageHistory, sessionId, currentMode, currentStreamingMessage, detached,
                   streamingTimeout, timers, socket, localStorage, histReqs, chatBox, run,
                   modeMark>>

\* socket.onclose of socket i (failed connect or lost connection): logs only
SocketClose(i) ==
    /\ socks[i].state \in {"CONNECTING", "OPEN"}
    /\ socks' = Release([socks EXCEPT ![i].state = "CLOSED"], socket)
    /\ sent' = NoPayload
    /\ UNCHANGED <<messageHistory, sessionId, currentMode, currentStreamingMessage, detached,
                   streamingTimeout, timers, socket, localStorage, histReqs, chatBox, run,
                   modeMark>>

\* socket.onmessage with event.data = p, in Ask mode
OnMessageAsk(p) ==
    LET t == Fresh(ClearTimeout(timers, streamingTimeout))
    IN
    /\ currentMode = "ask"
    /\ IF currentStreamingMessage = 0
       THEN /\ messageHistory' = Append(messageHistory, Entry(<<p>>, "agent", TRUE))
            /\ currentStreamingMessage' = Len(messageHistory')
            /\ run' = [phase |-> "streaming", chunks |-> <<p>>,
                       startLen |-> Len(messageHistory)]
            /\ UNCHANGED detached
       ELSE /\ IF currentStreamingMessage = Detached
               THEN /\ detached' = [detached EXCEPT !.msg = AppendChunk(@, p)]
                    /\ UNCHANGED messageHistory
               ELSE /\ messageHistory' = [messageHistory EXCEPT
                                            ![currentStreamingMessage].msg = AppendChunk(@, p)]
                    /\ UNCHANGED detached
            /\ run' = IF run.phase = "streaming"
                      THEN [run EXCEPT !.chunks = Append(@, p)] ELSE NoRun
            /\ UNCHANGED currentStreamingMessage
    /\ chatBox' = RenderMessages(messageHistory')
    /\ timers' = (IF streamingTimeout # 0 THEN ClearTimeout(timers, streamingTimeout)
                  ELSE timers) \cup {t}
    /\ streamingTimeout' = t
    /\ sent' = NoPayload
    /\ UNCHANGED <<sessionId, currentMode, socket, socks, localStorage, histReqs,
                   modeMark>>

\* socket.onmessage with event.data = p, in Agent mode
OnMessageAgent(p) ==
    /\ currentMode # "ask"
    /\ messageHistory' = Append(messageHistory, Entry(<<p>>, "agent", FALSE))
    /\ chatBox' = RenderMessages(messageHistory')
    /\ run' = NoRun
    /\ sent' = NoPayload
    /\ UNCHANGED <<sessionId, currentMode, currentStreamingMessage, detached,
                   streamingTimeout, timers, socket, socks, localStorage, histReqs,
                   modeMark>>

\* a message event of socket i with event.data = p
OnMessage(i, p) ==
    /\ socks[i].state = "OPEN"
    /\ (OnMessageAsk(p) \/ OnMessageAgent(p))

\* a message event of socket i with event.data = p during which
\* renderMessages() throws at the entry the message has changed: the rest
\* of the try block is skipped and the catch block adds event.data again and
\* calls renderMessages() once more, which throws at that entry again
\* (again) or renders the whole transcript
OnMessageRenderThrows(i, p, again) ==
    LET c == currentStreamingMessage
        inTry == IF currentMode = "ask" /\ c # 0
                 THEN [messageHistory EXCEPT ![c].msg = AppendChunk(@, p)]
                 ELSE Append(messageHistory, Entry(<<p>>, "agent", currentMode = "ask"))
        at == IF currentMode = "ask" /\ c # 0 THEN c ELSE Len(inTry)
        inCatch == IF currentMode = "ask"
                   THEN [inTry EXCEPT ![at].msg = AppendChunk(@, p)]
                   ELSE Append(inTry, Entry(<<p>>, "agent", FALSE))
    IN
    /\ socks[i].state = "OPEN"
    /\ c # Detached
    /\ messageHistory' = inCatch
    /\ currentStreamingMessage' = IF currentMode = "ask" THEN at ELSE c
    /\ chatBox' = IF again THEN RenderMessages(SubSeq(inCatch, 1, at - 1))
                  ELSE RenderMessages(inCatch)
    /\ run' = NoRun
    /\ sent' = NoPayload
    /\ UNCHANGED <<sessionId, currentMode, detached, streamingTimeout, timers, socket, socks,
                   localStorage, histReqs, modeMark>>

\* the idle timer t expires
StreamingTimeoutFires(t) ==
    /\ t \in timers
    /\ timers' = timers \ {t}
    /\ IF currentStreamingMessage # 0
       THEN /\ messageHistory' =
                   IF currentStreamingMessage = Detached THEN messageHistory
                   ELSE [messageHistory EXCEPT ![currentStreamingMessage] = FinalizeStream(@)]
            /\ detached' = NoObj
            /\ currentStreamingMessage' = 0
            /\ chatBox' = RenderMessages(messageHistory')
            /\ run' = IF run.phase = "streaming" THEN [run EXCEPT !.phase = "final"]
                      ELSE NoRun
       ELSE /\ UNCHANGED <<messageHistory, detached, currentStreamingMessage, chatBox>>
            /\ run' = NoRun
    /\ sent' = NoPayload
    /\ UNCHANGED <<sessionId, currentMode, streamingTimeout, socket, socks,
                   localStorage, histReqs, modeMark>>

\* a payload that carries the session id the page was loaded with
SendPayloadFirstSession(message) ==
    [message |-> message, session_id |-> 1, mode |-> currentMode]

\* the payload of sendMessage(message)
SendPayload(message) == [message |-> message, session_id |-> sessionId, mode |-> currentMode]

\* send-btn click / Enter keydown with input.value = text:
\* displayMessage(msg, "user"); sendMessage(msg)
SendClick(text) ==
    LET isOpen == socket # 0 /\ socks[socket].state = "OPEN"
        reset == isOpen /\ currentMode = "ask"
    IN
    /\ messageHistory' = Append(messageHistory, Entry(<<UserTok(text)>>, "user", FALSE))
    /\ chatBox' = RenderMessages(messageHistory')
    /\ currentStreamingMessage' = IF reset THEN 0 ELSE currentStreamingMessage
    /\ detached' = IF reset THEN NoObj ELSE detached
    /\ timers' = IF reset /\ streamingTimeout # 0
                 THEN ClearTimeout(timers, streamingTimeout) ELSE timers
    /\ streamingTimeout' = IF reset THEN 0 ELSE streamingTimeout
    /\ sent' = IF isOpen THEN SendPayload(text) ELSE NoPayload
    /\ run' = Disturb(run)
    /\ UNCHANGED <<sessionId, currentMode, socket, socks, localStorage, histReqs,
                   modeMark>>

\* change event of the mode radio with value m
ModeChange(m) ==
    /\ m \in {"agent", "ask"} \ {currentMode}
    /\ CanConnect(socks, socket)
    /\ currentMode' = m
    /\ localStorage' = [localStorage EXCEPT !.chat_mode = m]
    /\ currentStreamingMessage' = 0
    /\ detached' = NoObj
    /\ LET c == ConnectWebSocket(socks, socket, m, sessionId)
       IN socks' = c[1] /\ socket' = c[2]
    /\ run' = Disturb(run)
    /\ modeMark' = IF \E id \in ToolIds : HasCall(messageHistory, id)
                   THEN Len(messageHistory) ELSE 0
    /\ sent' = NoPayload
    /\ UNCHANGED <<messageHistory, sessionId, streamingTimeout, timers, histReqs, chatBox>>

\* new-chat-btn click
NewChat ==
    /\ sessionId' = sessionId + 1
    /\ localStorage' = [localStorage EXCEPT !.chat_session_id = sessionId']
    /\ messageHistory' = <<>>
    /\ currentStreamingMessage' = DetachRef(currentStreamingMessage)
    /\ detached' = DetachObj(messageHistory, detached, currentStreamingMessage)
    /\ chatBox' = RenderMessages(messageHistory')
    /\ histReqs' = histReqs \cup {sessionId'}
    /\ run' = Disturb(run)
    /\ modeMark' = 0
    /\ sent' = NoPayload
    /\ UNCHANGED <<currentMode, streamingTimeout, timers, socket, socks>>

\* bodies the /history/{s} endpoint can answer with: no history field, or the
\* stored messages of the session
HistoryData ==
    {[has |-> FALSE, history |-> <<>>],
     [has |-> TRUE, history |-> <<>>],
     [has |-> TRUE, history |-> <<[msg |-> <<UserTok("hi")>>, sender |-> "user"]>>]}

\* data.history.map(({msg, sender}) => ({msg, sender}))
MapHistory(h) == [k \in DOMAIN h |-> Entry(h[k].msg, h[k].sender, FALSE)]

\* the .then(data => ...) callback of fetchHistory for the request of session s
HistoryResponse(s, data) ==
    /\ s \in histReqs
    /\ histReqs' = histReqs \ {s}
    /\ IF data.has
       THEN /\ messageHistory' = MapHistory(data.history)
            /\ currentStreamingMessage' = DetachRef(currentStreamingMessage)
            /\ detached' = DetachObj(messageHistory, detached, currentStreamingMessage)
            /\ chatBox' = RenderMessages(messageHistory')
            /\ modeMark' = 0
       ELSE UNCHANGED <<messageHistory, currentStreamingMessage, detached, chatBox,
                        modeMark>>
    /\ UNCHANGED run
    /\ sent' = NoPayload
    /\ UNCHANGED <<sessionId, currentMode, streamingTimeout, timers, socket, socks,
                   localStorage>>

\* The handlers, for a server that sends the payloads of Wire; the client
\* holds at most cap tokens.
NextMcp(Wire, cap) ==
    \/ \E i \in DOMAIN socks : SocketOpen(i) /\ UNCHANGED <<appVars, envVars, panelVars, convVars, btnVars>>
    \/ \E i \in DOMAIN socks : SocketClose(i) /\ UNCHANGED <<appVars, envVars, panelVars, convVars, btnVars>>
    \/ \E i \in DOMAIN socks, p \in Wire :
           HasRoom(cap) /\ OnMessage(i, p) /\ UNCHANGED <<appVars, envVars, panelVars, convVars, btnVars>>
    \/ \E t \in timers : StreamingTimeoutFires(t) /\ UNCHANGED <<appVars, envVars, panelVars, convVars, btnVars>>
    \/ \E text \in UserTexts : HasRoom(cap) /\ SendClick(text) /\ UNCHANGED <<appVars, envVars, panelVars, convVars, btnVars>>
    \/ \E m \in {"agent", "ask"} : ModeChange(m) /\ UNCHANGED <<appVars, envVars, panelVars, convVars, btnVars>>
    \/ sessionId < MaxSessions /\ NewChat /\ UNCHANGED <<appVars, envVars, panelVars, convVars, btnVars>>
    \/ \E s \in histReqs, data \in HistoryData :
           HistoryResponse(s, data) /\ UNCHANGED <<appVars, envVars, panelVars, convVars, btnVars>>

\* ----------------------------------------------------------------------
\* loading.js : appState()
\* ----------------------------------------------------------------------
AppPayloads == {Payload("text", <<>>, "a"), Payload("calls", <<1>>, ""),
                Payload("result", <<1>>, "r")}

Message(role, content, calls) == [role |-> role, content |-> content, tool_calls |-> calls]

\* the ids of the tool-call divs renderAgentMessage makes for the messages
ToolDivs(msgs) ==
    {id \in ToolIds : \E k \in DOMAIN msgs :
        /\ msgs[k].role = "agent"
        /\ \E j \in DOMAIN msgs[k].tool_calls : msgs[k].tool_calls[j] = id}

\* the result blocks that are still in the document once the page shows msgs
Shown(msgs, res) == [id \in ToolIds |-> IF id \in ToolDivs(msgs) THEN res[id] ELSE <<>>]

\* this.messages.splice(k, 1)
Splice(msgs, k) == [j \in 1..(Len(msgs) - 1) |-> IF j < k THEN msgs[j] ELSE msgs[j + 1]]

\* push the text as a new agent message, or lastMessage.content += text
AppendToAgent(msgs, p) ==
    IF msgs = <<>> \/ msgs[Len(msgs)].role # "agent"
    THEN Append(msgs, Message("agent", <<p>>, <<>>))
    ELSE [msgs EXCEPT ![Len(msgs)].content = @ \o <<p>>]

\* data.tools.messages.forEach of payload p, from the j-th tool message on:
\* new value of <<messages, toolResults>>
RECURSIVE ToolResponses(_, _, _, _)
ToolResponses(msgs, res, p, j) ==
    IF j > Len(p.ids) THEN <<msgs, res>>
    ELSE IF p.ids[j] \in ToolDivs(msgs)
         THEN ToolResponses(msgs, [res EXCEPT ![p.ids[j]] = Append(@, p.text)], p, j + 1)
         ELSE ToolResponses(Append(msgs, Message("tool", <<p>>, <<>>)), res, p, j + 1)

\* number of messages, payloads, typed texts and result blocks held by the page
RECURSIVE Contents(_)
Contents(msgs) == IF msgs = <<>> THEN 0
                  ELSE 1 + Len(Head(msgs).content) + Contents(Tail(msgs))
RECURSIVE Blocks(_, _)
Blocks(res, ids) == IF ids = {} THEN 0
                    ELSE LET id == Min(ids) IN Len(res[id]) + Blocks(res, ids \ {id})
AppHasRoom == Contents(messages) + Blocks(toolResults, ToolIds) < AppTokens

NoWs == [state |-> "NONE"]
FreeWs(sk) == {i \in DOMAIN sk : sk[i].state = "NONE"}

\* Once its close event has been handled a WebSocket raises no further event;
\* it is dropped from wsocks when `ws` no longer refers to it.
ReleaseWs(sk, cur) ==
    [i \in DOMAIN sk |-> IF i # cur /\ sk[i].state = "CLOSED" THEN NoWs ELSE sk[i]]

\* this.selectedVectorStore: appState() has no member of this name and
\* nothing assigns one, so that reading it gives undefined
selectedVectorStore == ""

\* a variant that leaves the existing connection as it is
SetupWebSocketKeepsOld(sk, cur) ==
    LET n == Min(FreeWs(ReleaseWs(sk, 0)))
    IN <<[ReleaseWs(sk, 0) EXCEPT ![n] = [state |-> "CONNECTING", endpoint |-> "/ws/react"]],
         n>>

\* setupWebSocket(): new value of <<wsocks, ws>>
SetupWebSocket(sk, cur) ==
    LET closed == IF cur # 0 /\ sk[cur].state \in {"CONNECTING", "OPEN"}
                  THEN [sk EXCEPT ![cur].state = "CLOSING"]
                  ELSE sk
        n == Min(FreeWs(ReleaseWs(closed, 0)))
    IN <<[ReleaseWs(closed, 0) EXCEPT
             ![n] = [state |-> "CONNECTING",
                     endpoint |-> IF selectedVectorStore # "" THEN "/ws/ask"
                                  ELSE "/ws/react"]], n>>

\* room for one more WebSocket object
CanSetup(sk, cur) == FreeWs(sk) # {} \/ (cur # 0 /\ sk[cur].state = "CLOSED")

\* the state after init()
InitApp ==
    /\ messages = <<>>
    /\ conversations = <<>>
    /\ currentConversation = 0
    /\ currentMessage = ""
    /\ isLoading = FALSE
    /\ LET c == SetupWebSocket([i \in 1..AppSockets |-> NoWs], 0)
       IN wsocks = c[1] /\ ws = c[2]
    /\ reconnects = 0
    /\ toolResults = [id \in ToolIds |-> <<>>]
    /\ now = 0
    /\ teardownTimers = 0

\* createNewConversation()
CreateNewConversation ==
    /\ now' = now + 1
    /\ conversations' = <<now'>> \o conversations
    /\ currentConversation' = now'
    /\ messages' = <<>>
    /\ toolResults' = Shown(messages', toolResults)
    /\ UNCHANGED <<currentMessage, isLoading, ws, wsocks, reconnects,
                   teardownTimers>>

\* deleteConversation(conversation), confirmed by the user
DeleteConversation(c) ==
    /\ \E k \in DOMAIN conversations : conversations[k] = c
    /\ conversations' = SelectSeq(conversations, LAMBDA x : x # c)
    /\ IF currentConversation = c
       THEN /\ currentConversation' = 0
            /\ messages' = <<>>
            /\ toolResults' = Shown(messages', toolResults)
       ELSE UNCHANGED <<currentConversation, messages, toolResults>>
    /\ UNCHANGED <<currentMessage, isLoading, ws, wsocks, reconnects, now,
                   teardownTimers>>

\* sendCurrentMessage() with the text typed into the input box
SendCurrentMessage(text) ==
    LET create == currentConversation = 0
        base == IF create THEN <<>> ELSE messages
        pushed == Append(base, Message("user", <<UserTok(text)>>, <<>>))
        messageIndex == Len(pushed)
        isOpen == ws # 0 /\ wsocks[ws].state = "OPEN"
    IN
    /\ create => now < MaxConversations
    /\ now' = IF create THEN now + 1 ELSE now
    /\ conversations' = IF create THEN <<now'>> \o conversations ELSE conversations
    /\ currentConversation' = IF create THEN now' ELSE currentConversation
    /\ IF isOpen
       THEN /\ messages' = pushed
            /\ currentMessage' = ""
            /\ isLoading' = TRUE
            /\ UNCHANGED <<ws, wsocks>>
       ELSE /\ CanSetup(wsocks, ws)
            /\ messages' = Splice(pushed, messageIndex)
            /\ currentMessage' = text
            /\ isLoading' = FALSE
            /\ LET c == SetupWebSocket(wsocks, ws)
               IN wsocks' = c[1] /\ ws' = c[2]
    /\ toolResults' = Shown(messages', toolResults)
    /\ UNCHANGED <<reconnects, teardownTimers>>

\* stopGeneration()
StopGeneration ==
    /\ isLoading
    /\ isLoading' = FALSE
    /\ UNCHANGED <<messages, conversations, currentConversation, currentMessage,
                   ws, wsocks, reconnects, toolResults, now,
                   teardownTimers>>

\* ws.onopen of socket i
WsOpen(i) ==
    /\ wsocks[i].state = "CONNECTING"
    /\ wsocks' = [wsocks EXCEPT ![i].state = "OPEN"]
    /\ UNCHANGED <<messages, conversations, currentConversation, currentMessage,
                   isLoading, ws, reconnects, toolResults, now,
                   teardownTimers>>

\* ws.onclose of socket i: arms the 3 s reconnect timer
\* a close handler that also drops the answer that was being received
WsCloseDropsAnswer(i) ==
    /\ wsocks[i].state \in {"CONNECTING", "OPEN", "CLOSING"}
    /\ wsocks' = ReleaseWs([wsocks EXCEPT ![i].state = "CLOSED"], ws)
    /\ reconnects' = reconnects + 1
    /\ teardownTimers' = IF wsocks[i].state = "CLOSING" THEN teardownTimers + 1
                         ELSE teardownTimers
    /\ messages' = IF messages # <<>> /\ messages[Len(messages)].role = "agent"
                   THEN SubSeq(messages, 1, Len(messages) - 1) ELSE messages
    /\ UNCHANGED <<conversations, currentConversation, currentMessage,
                   isLoading, ws, toolResults, now>>

WsClose(i) ==
    /\ wsocks[i].state \in {"CONNECTING", "OPEN", "CLOSING"}
    /\ wsocks' = ReleaseWs([wsocks EXCEPT ![i].state = "CLOSED"], ws)
    /\ reconnects' = reconnects + 1
    /\ teardownTimers' = IF wsocks[i].state = "CLOSING" THEN teardownTimers + 1
                         ELSE teardownTimers
    /\ UNCHANGED <<messages, conversations, currentConversation, currentMessage,
                   isLoading, ws, toolResults, now>>

\* a reconnect timer that retries only when no socket was ever created
ReconnectFiresOnlyWhenNull(own) ==
    /\ IF own THEN teardownTimers > 0 ELSE reconnects > teardownTimers
    /\ reconnects' = reconnects - 1
    /\ teardownTimers' = IF own THEN teardownTimers - 1 ELSE teardownTimers
    /\ IF ws = 0
       THEN LET c == SetupWebSocket(wsocks, ws)
            IN wsocks' = c[1] /\ ws' = c[2]
       ELSE UNCHANGED <<ws, wsocks>>
    /\ UNCHANGED <<messages, conversations, currentConversation, currentMessage,
                   isLoading, toolResults, now>>

\* a reconnect timer expires; own tells whether it stems from the close of a
\* socket that setupWebSocket closed
ReconnectFires(own) ==
    /\ IF own THEN teardownTimers > 0 ELSE reconnects > teardownTimers
    /\ reconnects' = reconnects - 1
    /\ teardownTimers' = IF own THEN teardownTimers - 1 ELSE teardownTimers
    /\ IF ws = 0 \/ wsocks[ws].state = "CLOSED"
       THEN LET c == SetupWebSocket(wsocks, ws)
            IN wsocks' = c[1] /\ ws' = c[2]
       ELSE UNCHANGED <<ws, wsocks>>
    /\ UNCHANGED <<messages, conversations, currentConversation, currentMessage,
                   isLoading, toolResults, now>>

\* ws.onmessage of socket i with event.data = p
WsMessage(i, p) ==
    /\ wsocks[i].state = "OPEN"
    /\ IF p.kind = "calls"
       THEN /\ messages' = Append(messages, Message("agent", <<>>, p.ids))
            /\ UNCHANGED toolResults
       ELSE IF p.kind = "result"
       THEN LET r == ToolResponses(messages, toolResults, p, 1)
            IN messages' = r[1] /\ toolResults' = r[2]
       ELSE /\ messages' = AppendToAgent(messages, p)
            /\ UNCHANGED toolResults
    /\ UNCHANGED <<conversations, currentConversation, currentMessage, isLoading,
                   ws, wsocks, reconnects, now,
                   teardownTimers>>

NextApp ==
    \/ now < MaxConversations /\ CreateNewConversation /\ UNCHANGED <<mcpVars, envVars, panelVars, convVars, btnVars>>
    \/ \E k \in DOMAIN conversations :
           DeleteConversation(conversations[k]) /\ UNCHANGED <<mcpVars, envVars, panelVars, convVars, btnVars>>
    \/ \E text \in UserTexts : AppHasRoom /\ SendCurrentMessage(text) /\ UNCHANGED <<mcpVars, envVars, panelVars, convVars, btnVars>>
    \/ StopGeneration /\ UNCHANGED <<mcpVars, envVars, panelVars, convVars, btnVars>>
    \/ \E i \in DOMAIN wsocks : WsOpen(i) /\ UNCHANGED <<mcpVars, envVars, panelVars, convVars, btnVars>>
    \/ \E i \in DOMAIN wsocks :
           reconnects < MaxReconnects /\ WsClose(i) /\ UNCHANGED <<mcpVars, envVars, panelVars, convVars, btnVars>>
    \/ \E own \in BOOLEAN : ReconnectFires(own) /\ UNCHANGED <<mcpVars, envVars, panelVars, convVars, btnVars>>
    \/ \E i \in DOMAIN wsocks, p \in AppPayloads :
           AppHasRoom /\ WsMessage(i, p) /\ UNCHANGED <<mcpVars, envVars, panelVars, convVars, btnVars>>

\* ----------------------------------------------------------------------
\* loading.js : the Tools and Knowledge panels
\* ----------------------------------------------------------------------
ToolNames == {"search", "odoo", "files"}
FileNames == {"a.pdf", "b.txt"}
StoreNames == {"docs"}

\* the sequences of at most n different elements of S
RECURSIVE Lists(_, _)
Lists(S, n) ==
    IF n = 0 THEN {<<>>}
    ELSE LET shorter == Lists(S, n - 1)
             fresh(l) == {x \in S : \A k \in DOMAIN l : l[k] # x}
         IN  shorter \cup UNION {{Append(l, x) : x \in fresh(l)} : l \in shorter}

\* the panels before anything is loaded or attached
NoPanel ==
    /\ mcpTools = <<>>
    /\ storedTools = {}
    /\ attachedFiles = <<>>
    /\ activeVectorStore = ""
    /\ uploads = {}
    /\ createCalls = 0

\* no request for conversations or messages is in flight, the send button
\* of the legacy page is enabled
Idle ==
    /\ convReq = FALSE
    /\ msgReqs = {}
    /\ sendBtnLoading = FALSE

\* a reload that enables every tool
LoadMCPToolsAllEnabled(tools) ==
    /\ mcpTools' = [k \in DOMAIN tools |-> [name |-> tools[k], enabled |-> TRUE]]
    /\ UNCHANGED <<storedTools, attachedFiles, activeVectorStore, uploads, createCalls>>

\* loadMCPTools() once /mcp/tools has answered with data.tools = tools
LoadMCPTools(tools) ==
    /\ mcpTools' = [k \in DOMAIN tools |->
                       [name |-> tools[k], enabled |-> tools[k] \in storedTools]]
    /\ UNCHANGED <<storedTools, attachedFiles, activeVectorStore, uploads, createCalls>>

\* the checkbox of the k-th tool is clicked: the flag flips, then toggleTool(tool)
ToggleTool(k) ==
    /\ k \in DOMAIN mcpTools
    /\ mcpTools' = [mcpTools EXCEPT ![k].enabled = ~@]
    /\ storedTools' = {mcpTools'[j].name : j \in {i \in DOMAIN mcpTools : mcpTools'[i].enabled}}
    /\ UNCHANGED <<attachedFiles, activeVectorStore, uploads, createCalls>>

\* handleFileSelect(event) with one file chosen
HandleFileSelect(f) ==
    /\ attachedFiles' = Append(attachedFiles, f)
    /\ UNCHANGED <<mcpTools, storedTools, activeVectorStore, uploads, createCalls>>

\* removeFile(index)
RemoveFile(k) ==
    /\ k \in DOMAIN attachedFiles
    /\ attachedFiles' = Splice(attachedFiles, k)
    /\ UNCHANGED <<mcpTools, storedTools, activeVectorStore, uploads, createCalls>>

\* selectVectorStore(store)
SelectVectorStore(name) ==
    /\ activeVectorStore' = IF activeVectorStore = name THEN "" ELSE name
    /\ UNCHANGED <<mcpTools, storedTools, attachedFiles, uploads, createCalls>>

\* addFilesToExistingStore(storeName) up to the fetch of uploadFilesToVectorStore
AddFilesToExistingStore(name) ==
    /\ uploads' = IF attachedFiles = <<>> THEN uploads
                  ELSE uploads \cup {[store |-> name, files |-> attachedFiles]}
    /\ UNCHANGED <<mcpTools, storedTools, attachedFiles, activeVectorStore, createCalls>>

\* the upload r is answered; addFilesToExistingStore goes on after its await
UploadResponse(r, ok) ==
    /\ r \in uploads
    /\ uploads' = uploads \ {r}
    /\ attachedFiles' = IF ok THEN <<>> ELSE attachedFiles
    /\ UNCHANGED <<mcpTools, storedTools, activeVectorStore, createCalls>>

\* createVectorStore(): of the two members of this name in the object
\* literal the later one is the method; it only shows a toast
CreateVectorStore ==
    /\ createCalls' = createCalls + 1
    /\ UNCHANGED <<mcpTools, storedTools, attachedFiles, activeVectorStore, uploads>>

\* ----------------------------------------------------------------------
\* loading.js : the payload texts and their two parsers
\* ----------------------------------------------------------------------
\* A payload text: raw is the text, json the kind of value JSON.parse makes of
\* it ("invalid" when it throws), text the decoded string of a JSON string and
\* JSON.stringify(data) of every other value; rag, agent and tools are the
\* members of that name of an object.
NoRag == [has |-> FALSE, messages |-> FALSE, mcontent |-> "", partial |-> FALSE,
          content |-> ""]
NoList == [has |-> FALSE, messages |-> <<>>]
List(ms) == [has |-> TRUE, messages |-> ms]
AgentMsg(c, calls) == [null |-> FALSE, content |-> c, tool_calls |-> calls]
NullAgentMsg == [null |-> TRUE, content |-> "", tool_calls |-> <<>>]
ToolMsg(id, c) == [null |-> FALSE, tool_call_id |-> id, content |-> c,
                   status |-> "success"]
FailedToolMsg(id, c) == [ToolMsg(id, c) EXCEPT !.status = "error"]
NullToolMsg == [null |-> TRUE, tool_call_id |-> 0, content |-> "", status |-> ""]
Envelope(raw, json, text, rag, agent, tools) ==
    [raw |-> raw, json |-> json, text |-> text, rag |-> rag, agent |-> agent,
     tools |-> tools]
Scalar(raw, json, text) == Envelope(raw, json, text, NoRag, NoList, NoList)
Object(raw, rag, agent, tools) == Envelope(raw, "object", raw, rag, agent, tools)

Envelopes ==
    { Scalar("hello", "invalid", ""),
      Scalar("\"hi\"", "string", "hi"),
      Scalar("7", "number", "7"),
      Scalar("null", "null", "null"),
      Scalar("[ ]", "array", "[]"),
      Scalar("{ }", "object", "{}"),
      Object("{\"rag\":{\"messages\":{\"content\":\"c\"}}}",
             [NoRag EXCEPT !.has = TRUE, !.messages = TRUE, !.mcontent = "c"],
             NoList, NoList),
      Object("{\"rag\":{\"partial\":true,\"content\":\"p\"}}",
             [NoRag EXCEPT !.has = TRUE, !.partial = TRUE, !.content = "p"],
             NoList, NoList),
      Object("{\"agent\":{\"messages\":[{\"content\":\"\",\"additional_kwargs\":{\"tool_calls\":[{\"id\":1}]}}]}}",
             NoRag, List(<<AgentMsg("", <<1>>)>>), NoList),
      Object("{\"agent\":{\"messages\":[{\"content\":\"t\"}]}}",
             NoRag, List(<<AgentMsg("t", <<>>)>>), NoList),
      Object("{\"agent\":{\"messages\":[{\"content\":\"\"}]},\"tools\":{\"messages\":[{\"tool_call_id\":1,\"content\":\"r\"}]}}",
             NoRag, List(<<AgentMsg("", <<>>)>>), List(<<ToolMsg(1, "r")>>)),
      Object("{\"agent\":{\"messages\":[null]}}",
             NoRag, List(<<NullAgentMsg>>), NoList),
      Object("{\"tools\":{\"messages\":[{\"tool_call_id\":1,\"content\":\"r\"}]}}",
             NoRag, NoList, List(<<ToolMsg(1, "r")>>)),
      Object("{\"tools\":{\"messages\":[{\"tool_call_id\":1,\"content\":\"x\",\"status\":\"error\"}]}}",
             NoRag, NoList, List(<<FailedToolMsg(1, "x")>>)),
      Object("{\"tools\":{\"messages\":[{\"tool_call_id\":1,\"content\":\"r\"},null]}}",
             NoRag, NoList, List(<<ToolMsg(1, "r"), NullToolMsg>>)) }

\* the sequences of at most n payload texts
RECURSIVE Inbounds(_)
Inbounds(n) ==
    IF n = 0 THEN {<<>>}
    ELSE Inbounds(n - 1) \cup
         {Append(s, e) : s \in {t \in Inbounds(n - 1) : Len(t) = n - 1}, e \in Envelopes}

\* a string as message content: the chunks it is made of
Text(c) == IF c = "" THEN <<>> ELSE <<c>>

\* push the chunk c as a new agent message, or lastMessage.content += c
AppendChunkTo(msgs, c) ==
    IF msgs = <<>> \/ msgs[Len(msgs)].role # "agent"
    THEN Append(msgs, Message("agent", Text(c), <<>>))
    ELSE [msgs EXCEPT ![Len(msgs)].content = @ \o Text(c)]

\* what a parser leaves: the messages, the result blocks, the console.error calls
Parsed(msgs, res, errs) == [messages |-> msgs, toolResults |-> res, errors |-> errs]

\* the catch block of ws.onmessage: the payload text becomes a plain chunk
CatchOnMessage(msgs, res, e) == Parsed(AppendChunkTo(msgs, e.raw), res, 1)

\* resultHtml: the result block made of a tool message
ResultBlock(toolMsg) ==
    [class |-> IF toolMsg.status = "error" THEN "error" ELSE "success",
     content |-> toolMsg.content]

\* a forEach that never finds the tool-call div
RECURSIVE LiveToolMessagesNoLookup(_, _, _, _)
LiveToolMessagesNoLookup(msgs, res, tm, j) ==
    IF j > Len(tm) THEN [messages |-> msgs, toolResults |-> res, threw |-> FALSE]
    ELSE IF tm[j].null THEN [messages |-> msgs, toolResults |-> res, threw |-> TRUE]
    ELSE LiveToolMessagesNoLookup(Append(msgs, Message("tool", Text(tm[j].content), <<>>)),
                                  res, tm, j + 1)

\* data.tools.messages.forEach(toolMsg => ...) from the j-th tool message on;
\* threw tells that reading a member of toolMsg raised a TypeError
RECURSIVE LiveToolMessages(_, _, _, _)
LiveToolMessages(msgs, res, tm, j) ==
    IF j > Len(tm) THEN [messages |-> msgs, toolResults |-> res, threw |-> FALSE]
    ELSE IF tm[j].null THEN [messages |-> msgs, toolResults |-> res, threw |-> TRUE]
    ELSE IF tm[j].tool_call_id \in ToolDivs(msgs)
         THEN LiveToolMessages(msgs,
                               [res EXCEPT ![tm[j].tool_call_id] = Append(@, ResultBlock(tm[j]))],
                               tm, j + 1)
         ELSE LiveToolMessages(Append(msgs, Message("tool", Text(tm[j].content), <<>>)),
                               res, tm, j + 1)

\* ws.onmessage for the payload text e, on the messages and result blocks
OnMessageData(msgs, res, e) ==
    LET am == e.agent.messages
        hasFirst == e.agent.has /\ Len(am) > 0
        agentMsg == am[1]
    IN
    IF e.json = "invalid" THEN CatchOnMessage(msgs, res, e)
    ELSE IF e.json \in {"string", "number"}
    THEN Parsed(AppendChunkTo(msgs, e.text), res, 0)
    ELSE IF e.json = "null" THEN CatchOnMessage(msgs, res, e)
    ELSE IF e.rag.has /\ e.rag.messages /\ e.rag.mcontent # ""
    THEN Parsed(AppendChunkTo(msgs, e.rag.mcontent), res, 0)
    ELSE IF hasFirst /\ agentMsg.null THEN CatchOnMessage(msgs, res, e)
    ELSE IF hasFirst /\ agentMsg.tool_calls # <<>>
    THEN Parsed(Append(msgs, Message("agent", Text(agentMsg.content), agentMsg.tool_calls)),
                res, 0)
    ELSE IF hasFirst /\ agentMsg.content # ""
    THEN Parsed(AppendChunkTo(msgs, agentMsg.content), res, 0)
    ELSE IF e.tools.has /\ Len(e.tools.messages) > 0
    THEN LET r == LiveToolMessages(msgs, res, e.tools.messages, 1)
         IN IF r.threw THEN CatchOnMessage(r.messages, r.toolResults, e)
            ELSE Parsed(r.messages, r.toolResults, 0)
    ELSE Parsed(AppendChunkTo(msgs, e.text), res, 0)

\* for (const toolMsg of data.tools.messages) parsed.push({role: 'tool', ...})
\* from the j-th tool message on, onto the entries made so far
RECURSIVE ReplayToolMessages(_, _, _)
ReplayToolMessages(parsed, tm, j) ==
    IF j > Len(tm) THEN [messages |-> parsed, threw |-> FALSE]
    ELSE IF tm[j].null THEN [messages |-> parsed, threw |-> TRUE]
    ELSE ReplayToolMessages(Append(parsed, Message("tool", Text(tm[j].content), <<>>)),
                            tm, j + 1)

\* one iteration of the loop of parseRawMessages, for a raw message of the
\* agent with the text e: the entries pushed and the console.error calls
ParseRaw(e) ==
    LET am == e.agent.messages
        agentMsg == am[1]
        plain == <<Message("agent", Text(e.raw), <<>>)>>
    IN
    IF e.json \in {"invalid", "null"} THEN [messages |-> plain, errors |-> 1]
    ELSE IF e.json \in {"string", "number"} THEN [messages |-> <<>>, errors |-> 0]
    ELSE IF e.tools.has /\ ~e.agent.has /\ ~e.rag.has
    THEN LET r == ReplayToolMessages(<<>>, e.tools.messages, 1)
         IN IF r.threw THEN [messages |-> r.messages \o plain, errors |-> 1]
            ELSE [messages |-> r.messages, errors |-> 0]
    ELSE IF e.agent.has /\ Len(am) > 0
    THEN IF agentMsg.null THEN [messages |-> plain, errors |-> 1]
         ELSE [messages |-> <<Message("agent", Text(agentMsg.content), agentMsg.tool_calls)>>,
               errors |-> 0]
    ELSE IF e.rag.has /\ e.rag.messages
    THEN [messages |-> <<Message("agent", Text(e.rag.mcontent), <<>>)>>, errors |-> 0]
    ELSE [messages |-> <<>>, errors |-> 0]

\* parseRawMessages(rawMessages) for the raw messages with the texts raws
RECURSIVE ParseRawMessages(_)
ParseRawMessages(raws) ==
    IF raws = <<>> THEN [messages |-> <<>>, errors |-> 0]
    ELSE LET init == ParseRawMessages(SubSeq(raws, 1, Len(raws) - 1))
             last == ParseRaw(raws[Len(raws)])
         IN [messages |-> init.messages \o last.messages,
             errors |-> init.errors + last.errors]

\* the socket i delivers the next payload text of the conversation
WsEnvelope(i) ==
    /\ wsocks[i].state = "OPEN"
    /\ delivered < Len(inbound)
    /\ LET r == OnMessageData(messages, toolResults, inbound[delivered + 1])
       IN /\ messages' = r.messages
          /\ toolResults' = r.toolResults
          /\ consoleErrors' = consoleErrors + r.errors
    /\ delivered' = delivered + 1
    /\ UNCHANGED <<conversations, currentConversation, currentMessage, isLoading,
                   ws, wsocks, reconnects, now, teardownTimers, inbound>>

\* loadMessages(conversationId) once the response with the texts the server
\* has sent so far has arrived
LoadMessages ==
    /\ delivered > 0
    /\ LET r == ParseRawMessages(SubSeq(inbound, 1, delivered))
       IN /\ messages' = r.messages
          /\ consoleErrors' = consoleErrors + r.errors
    /\ toolResults' = Shown(messages', toolResults)
    /\ UNCHANGED <<conversations, currentConversation, currentMessage, isLoading,
                   ws, wsocks, reconnects, now, teardownTimers, inbound, delivered>>

\* ----------------------------------------------------------------------
\* loading.js : the conversations of the server
\* ----------------------------------------------------------------------
\* the conversations /api/conversations answers with, by their ids
ServerConversations == <<101, 102>>
IsServerConversation(c) == \E k \in DOMAIN ServerConversations : ServerConversations[k] = c

\* the raw messages /api/conversations/{c}/messages answers with
EnvelopeOf(raw) == CHOOSE e \in Envelopes : e.raw = raw
Stored(c) ==
    IF c = 101 THEN <<EnvelopeOf("{\"agent\":{\"messages\":[{\"content\":\"t\"}]}}")>>
    ELSE IF c = 102 THEN <<EnvelopeOf("{\"rag\":{\"messages\":{\"content\":\"c\"}}}")>>
    ELSE <<>>

\* the status of the response for conversation c: the server knows only
\* its own conversations
StatusOf(c) == IF IsServerConversation(c) THEN 200 ELSE 404

\* loadConversations() after its await: the response has arrived (ok) or the
\* request has failed
LoadConversationsResponse(ok) ==
    /\ convReq
    /\ convReq' = FALSE
    /\ conversations' = IF ok THEN ServerConversations ELSE <<>>
    /\ UNCHANGED <<messages, currentConversation, currentMessage, isLoading, ws, wsocks,
                   reconnects, toolResults, now, teardownTimers, msgReqs>>

\* switchConversation(conversation) for the entry c of the sidebar, up to
\* the fetch of loadMessages
SwitchConversation(c) ==
    /\ \E k \in DOMAIN conversations : conversations[k] = c
    /\ currentConversation' = c
    /\ msgReqs' = msgReqs \cup {c}
    /\ UNCHANGED <<messages, conversations, currentMessage, isLoading, ws, wsocks,
                   reconnects, toolResults, now, teardownTimers, convReq>>

\* loadMessages(c) after its await: the response has arrived with the
\* given status
LoadMessagesResponse(c, status) ==
    /\ c \in msgReqs
    /\ msgReqs' = msgReqs \ {c}
    /\ LET r == ParseRawMessages(Stored(c))
       IN IF status = 200
          THEN /\ messages' = r.messages
               /\ consoleErrors' = consoleErrors + r.errors
          ELSE /\ messages' = <<>>
               /\ consoleErrors' = IF status = 404 THEN consoleErrors ELSE consoleErrors + 1
    /\ toolResults' = Shown(messages', toolResults)
    /\ UNCHANGED <<conversations, currentConversation, currentMessage, isLoading, ws, wsocks,
                   reconnects, now, teardownTimers, inbound, delivered, convReq>>

\* the server sends any texts of Envelopes
InitEnvelopes ==
    /\ InitMcp(StreamSockets)
    /\ InitApp
    /\ inbound \in Inbounds(MaxInbound)
    /\ delivered = 0
    /\ consoleErrors = 0
    /\ NoPanel
    /\ Idle

NextEnvelopes ==
    \/ \E i \in DOMAIN wsocks : WsOpen(i) /\ UNCHANGED <<mcpVars, envVars, panelVars, convVars, btnVars>>
    \/ \E i \in DOMAIN wsocks : WsEnvelope(i) /\ UNCHANGED <<mcpVars, panelVars, convVars, btnVars>>
    \/ consoleErrors < MaxConsoleErrors /\ LoadMessages /\ UNCHANGED <<mcpVars, panelVars, convVars, btnVars>>

\* no payload texts are considered
NoInbound == inbound = <<>> /\ delivered = 0 /\ consoleErrors = 0

\* the Tools panel, with any names stored by earlier visits
InitToolsPanel ==
    /\ InitMcp(StreamSockets) /\ InitApp /\ NoInbound
    /\ mcpTools = <<>>
    /\ storedTools \in SUBSET ToolNames
    /\ attachedFiles = <<>>
    /\ activeVectorStore = ""
    /\ uploads = {}
    /\ createCalls = 0
    /\ Idle

NextToolsPanel ==
    \/ \E tools \in Lists(ToolNames, MaxTools) :
           LoadMCPTools(tools) /\ UNCHANGED <<mcpVars, appVars, envVars, convVars, btnVars>>
    \/ \E k \in DOMAIN mcpTools : ToggleTool(k) /\ UNCHANGED <<mcpVars, appVars, envVars, convVars, btnVars>>

NextKnowledge ==
    \/ \E f \in FileNames :
           Len(attachedFiles) < MaxFiles /\ HandleFileSelect(f)
               /\ UNCHANGED <<mcpVars, appVars, envVars, convVars, btnVars>>
    \/ \E k \in DOMAIN attachedFiles : RemoveFile(k) /\ UNCHANGED <<mcpVars, appVars, envVars, convVars, btnVars>>
    \/ \E name \in StoreNames :
           SelectVectorStore(name) /\ UNCHANGED <<mcpVars, appVars, envVars, convVars, btnVars>>
    \/ \E name \in StoreNames :
           AddFilesToExistingStore(name) /\ UNCHANGED <<mcpVars, appVars, envVars, convVars, btnVars>>
    \/ \E r \in uploads, ok \in BOOLEAN :
           UploadResponse(r, ok) /\ UNCHANGED <<mcpVars, appVars, envVars, convVars, btnVars>>
    \/ createCalls < MaxCreateCalls /\ CreateVectorStore
           /\ UNCHANGED <<mcpVars, appVars, envVars, convVars, btnVars>>


\* ----------------------------------------------------------------------
\* Specifications
\* ----------------------------------------------------------------------
\* app-mcp.js, the server streams plain text chunks
InitStream == InitMcp(StreamSockets) /\ InitApp /\ NoInbound /\ NoPanel /\ Idle
NextStream == NextMcp(AskPayloads, StreamTokens)
SpecStream == InitStream /\ [][NextStream]_vars

\* app-mcp.js with chunks streamed, an armed idle timer expires in the end
TimerFires ==
    \E t \in timers : StreamingTimeoutFires(t) /\ UNCHANGED <<appVars, envVars, panelVars, convVars, btnVars>>
SpecStreamLive == InitStream /\ [][NextStream]_vars /\ WF_vars(TimerFires)

\* click on send-btn with input.value = text: the handler of SendClick, then
\* addButtonLoading(sendBtn, 'Sending...'); a disabled button takes no click
SendBtnClick(text) ==
    /\ ~sendBtnLoading
    /\ SendClick(text)
    /\ sendBtnLoading' = TRUE

\* Enter keydown in user-input with input.value = text
InputKeydown(text) == SendClick(text) /\ UNCHANGED sendBtnLoading

\* a message event of socket i: removeButtonLoading(sendBtn), then the
\* handling of event.data = p
OnMessageEvent(i, p) == OnMessage(i, p) /\ sendBtnLoading' = FALSE

\* app-mcp.js with chunks streamed and the send button in use
NextButton ==
    \/ \E i \in DOMAIN socks :
           SocketOpen(i) /\ UNCHANGED <<appVars, envVars, panelVars, convVars, btnVars>>
    \/ \E i \in DOMAIN socks :
           SocketClose(i) /\ UNCHANGED <<appVars, envVars, panelVars, convVars, btnVars>>
    \/ \E i \in DOMAIN socks, p \in AskPayloads :
           HasRoom(StreamTokens) /\ OnMessageEvent(i, p)
               /\ UNCHANGED <<appVars, envVars, panelVars, convVars>>
    \/ TimerFires
    \/ \E text \in UserTexts :
           HasRoom(StreamTokens) /\ SendBtnClick(text)
               /\ UNCHANGED <<appVars, envVars, panelVars, convVars>>
    \/ \E text \in UserTexts :
           HasRoom(StreamTokens) /\ InputKeydown(text)
               /\ UNCHANGED <<appVars, envVars, panelVars, convVars>>
    \/ \E m \in {"agent", "ask"} :
           ModeChange(m) /\ UNCHANGED <<appVars, envVars, panelVars, convVars, btnVars>>
    \/ sessionId < MaxSessions /\ NewChat
           /\ UNCHANGED <<appVars, envVars, panelVars, convVars, btnVars>>
    \/ \E s \in histReqs, data \in HistoryData :
           HistoryResponse(s, data) /\ UNCHANGED <<appVars, envVars, panelVars, convVars, btnVars>>
SpecButtonLive == InitStream /\ [][NextButton]_vars /\ WF_vars(TimerFires)

\* app-mcp.js with chunks streamed and a renderer that can throw
NextRender ==
    \/ NextStream
    \/ \E i \in DOMAIN socks, p \in AskPayloads, again \in BOOLEAN :
           /\ Tokens(messageHistory) + Len(detached.msg) + 1 < StreamTokens
           /\ OnMessageRenderThrows(i, p, again)
           /\ UNCHANGED <<appVars, envVars, panelVars, convVars, btnVars>>
SpecRender == InitStream /\ [][NextRender]_vars

\* app-mcp.js, the server sends the JSON envelopes of the agent
InitTools == InitMcp(MaxSockets) /\ InitApp /\ NoInbound /\ NoPanel /\ Idle
NextTools == NextMcp(ReactPayloads, MaxTokens)
SpecTools == InitTools /\ [][NextTools]_vars

\* app-mcp.js, the agent asks for two tools in one message
CallPayloads == {Payload("calls", <<1, 2>>, ""), Payload("result", <<1>>, "r"),
                 Payload("result", <<2>>, "s")}
NextCalls == NextMcp(CallPayloads, StreamTokens)
SpecCalls == InitStream /\ [][NextCalls]_vars

\* loading.js
SpecApp == InitStream /\ [][NextApp]_vars

\* loading.js, the sidebar: init() has asked for the conversations
InitConversations ==
    /\ InitMcp(StreamSockets) /\ InitApp /\ NoInbound /\ NoPanel
    /\ convReq = TRUE
    /\ msgReqs = {}
    /\ sendBtnLoading = FALSE

NextConversations ==
    \/ \E ok \in BOOLEAN :
           LoadConversationsResponse(ok) /\ UNCHANGED <<mcpVars, envVars, panelVars, btnVars>>
    \/ now < MaxConversations /\ CreateNewConversation
           /\ UNCHANGED <<mcpVars, envVars, panelVars, convVars, btnVars>>
    \/ \E k \in DOMAIN conversations :
           DeleteConversation(conversations[k])
               /\ UNCHANGED <<mcpVars, envVars, panelVars, convVars, btnVars>>
    \/ \E k \in DOMAIN conversations :
           SwitchConversation(conversations[k]) /\ UNCHANGED <<mcpVars, envVars, panelVars, btnVars>>
    \/ \E c \in msgReqs :
           LoadMessagesResponse(c, StatusOf(c)) /\ UNCHANGED <<mcpVars, panelVars, btnVars>>

SpecConversations == InitConversations /\ [][NextConversations]_vars

\* loading.js, the Tools panel
SpecToolsPanel == InitToolsPanel /\ [][NextToolsPanel]_vars

\* loading.js, the Knowledge panel
SpecKnowledge == InitStream /\ [][NextKnowledge]_vars

\* loading.js, the live parser and the replay parser on any payload texts
SpecEnvelopes == InitEnvelopes /\ [][NextEnvelopes]_vars

\* ----------------------------------------------------------------------
\* Properties of app-mcp.js
\* ----------------------------------------------------------------------
\* the entries shown with the streaming indicator
StreamingEntries == {k \in DOMAIN messageHistory : messageHistory[k].streaming}
\* a socket that is connecting or open
Live(s) == s.state \in {"CONNECTING", "OPEN"}
LastEntry == messageHistory[Len(messageHistory)]

\* C1: in Ask mode messageHistory never holds two entries whose streaming
\* flag is set at the same time.
C1_SingleStreamingEntry == currentMode = "ask" => Cardinality(StreamingEntries) <= 1

\* C5: chunks c1..cn that arrive in Ask mode with no user action in between
\* make exactly one new agent entry of messageHistory whose text is c1 ... cn
\* in arrival order; the entry is streaming until the idle timer expires and
\* final from then on.
C5_ChunksMakeOneEntry ==
    /\ run.phase = "streaming" =>
          /\ Len(messageHistory) = run.startLen + 1
          /\ LastEntry = Entry(run.chunks, "agent", TRUE)
    /\ run.phase = "final" =>
          /\ Len(messageHistory) = run.startLen + 1
          /\ LastEntry = Entry(run.chunks, "agent", FALSE)

C8_SwitchFinalizesStream ==
    [][ ((\E m \in {"agent", "ask"} : ModeChange(m)) \/ NewChat) =>
            /\ timers' = {}
            /\ \A k \in DOMAIN messageHistory' :
                   messageHistory'[k].streaming => currentStreamingMessage' = k
      ]_vars

\* C9: a socket that was opened for an earlier session never adds to
\* messageHistory: new chat has cancelled it before the new session's
\* transcript can receive anything.
C9_OldSocketIsCancelled ==
    [][ \A i \in DOMAIN socks, p \in AskPayloads :
            (OnMessage(i, p) /\ socks[i].session # sessionId) =>
                messageHistory' = messageHistory
      ]_vars

\* C4: in Agent mode a tool result whose id matches no tool call received
\* before adds exactly one element to the displayed transcript, and that
\* element carries the result.
C4_OrphanResultIsShown ==
    [][ \A p \in ReactPayloads :
            (/\ p.kind = "result"
             /\ OnMessageAgent(p)
             /\ \A j \in DOMAIN p.ids : ~HasCall(messageHistory, p.ids[j])) =>
                /\ Len(chatBox') = Len(chatBox) + 1
                /\ chatBox'[Len(chatBox')].body = <<p>>
      ]_vars

\* C7: the entries received before a mode change stay in messageHistory, and
\* a tool result received after the mode change is never attached to a tool
\* call received before it.
C7_LateResultIsOrphan ==
    /\ modeMark <= Len(messageHistory)
    /\ \A k \in DOMAIN chatBox :
           \A j \in DOMAIN chatBox[k].results :
               ~(chatBox[k].entry <= modeMark /\ chatBox[k].results[j].entry > modeMark)

\* C10: at most one WebSocket made by connectWebSocket is connecting or open.
C10_OneLiveSocket == Cardinality({i \in DOMAIN socks : Live(socks[i])}) <= 1

\* ----------------------------------------------------------------------
\* Properties of loading.js
\* ----------------------------------------------------------------------
\* C2: however often the same tool-result message is delivered, the tool call
\* it names holds exactly one result block, and a repeated delivery adds no
\* entry to messages.
C2_DuplicateResultIgnored ==
    [][ \A i \in DOMAIN wsocks, p \in AppPayloads :
            (/\ p.kind = "result"
             /\ WsMessage(i, p)
             /\ \A j \in DOMAIN p.ids : toolResults[p.ids[j]] # <<>>) =>
                /\ messages' = messages
                /\ \A id \in ToolIds : Len(toolResults'[id]) <= 1
      ]_vars

\* C3: a sendCurrentMessage() call that finds the socket not open leaves
\* messages exactly as it was before the call.
C3_RollbackRestoresMessages ==
    [][ \A text \in UserTexts :
            (SendCurrentMessage(text) /\ ~(ws # 0 /\ wsocks[ws].state = "OPEN")) =>
                messages' = messages
      ]_vars

\* ----------------------------------------------------------------------
\* Properties of the transport
\* ----------------------------------------------------------------------
\* the endpoint connectWebSocket chooses for a mode
EndpointOf(mode) == IF mode = "agent" THEN "/ws/react" ELSE "/ws/ask"

\* C11: every message the client handles was delivered by a socket of the
\* endpoint of the current mode, so that it is handled by the rules of the
\* mode of the socket that delivered it.
C11_MessagesComeFromModeEndpoint ==
    [][ \A i \in DOMAIN socks, p \in ReactPayloads :
            OnMessage(i, p) => socks[i].endpoint = EndpointOf(currentMode)
      ]_vars

\* C13: the close event of a socket that setupWebSocket closed never leads
\* to the creation of another socket: when the timer armed by such a close
\* expires, the sockets and the current socket stay as they are.
C13_TeardownCloseNeverReconnects ==
    [][ ReconnectFires(TRUE) => (wsocks' = wsocks /\ ws' = ws) ]_vars

\* the steps of the redesigned client that create, open, close or use a socket
NextWs ==
    \/ \E text \in UserTexts : AppHasRoom /\ SendCurrentMessage(text) /\ UNCHANGED <<mcpVars, envVars, panelVars, convVars, btnVars>>
    \/ \E i \in DOMAIN wsocks : WsOpen(i) /\ UNCHANGED <<mcpVars, envVars, panelVars, convVars, btnVars>>
    \/ \E i \in DOMAIN wsocks :
           reconnects < MaxReconnects /\ WsClose(i) /\ UNCHANGED <<mcpVars, envVars, panelVars, convVars, btnVars>>
    \/ \E own \in BOOLEAN : ReconnectFires(own) /\ UNCHANGED <<mcpVars, envVars, panelVars, convVars, btnVars>>

\* loading.js, the sockets while the user selects and deselects a vector store
NextEndpoint ==
    \/ NextWs
    \/ \E name \in StoreNames :
           SelectVectorStore(name) /\ UNCHANGED <<mcpVars, appVars, envVars, convVars, btnVars>>
SpecEndpoint == InitStream /\ [][NextEndpoint]_vars

\* loading.js, the socket opens, delivers, fails and is set up again
NextTransport ==
    \/ \E text \in UserTexts :
           AppHasRoom /\ SendCurrentMessage(text) /\ UNCHANGED <<mcpVars, envVars, panelVars, convVars, btnVars>>
    \/ \E i \in DOMAIN wsocks : WsOpen(i) /\ UNCHANGED <<mcpVars, envVars, panelVars, convVars, btnVars>>
    \/ \E i \in DOMAIN wsocks :
           reconnects < MaxReconnects /\ WsClose(i) /\ UNCHANGED <<mcpVars, envVars, panelVars, convVars, btnVars>>
    \/ \E own \in BOOLEAN : ReconnectFires(own) /\ UNCHANGED <<mcpVars, envVars, panelVars, convVars, btnVars>>
    \/ \E i \in DOMAIN wsocks, p \in AppPayloads :
           AppHasRoom /\ WsMessage(i, p) /\ UNCHANGED <<mcpVars, envVars, panelVars, convVars, btnVars>>

SpecTransport == InitStream /\ [][NextTransport]_vars

\* the same steps without stopGeneration, where reconnect timers expire and
\* an open socket delivers what the server sends
TimersAndDelivery ==
    \/ \E own \in BOOLEAN :
           ReconnectFires(own) /\ UNCHANGED <<mcpVars, envVars, panelVars, convVars, btnVars>>
    \/ \E i \in DOMAIN wsocks, p \in AppPayloads :
           AppHasRoom /\ WsMessage(i, p)
               /\ UNCHANGED <<mcpVars, envVars, panelVars, convVars, btnVars>>
SpecTransportLive == InitStream /\ [][NextTransport]_vars /\ WF_vars(TimersAndDelivery)

\* the reconnect timers of the redesigned client fire
SpecAppLive ==
    /\ InitStream
    /\ [][NextWs]_vars
    /\ WF_vars(\E own \in BOOLEAN : ReconnectFires(own) /\ UNCHANGED <<mcpVars, envVars, panelVars, convVars, btnVars>>)

\* the current socket of the redesigned client has closed
WsIsClosed == ws # 0 /\ wsocks[ws].state = "CLOSED"

\* C12: whenever the current socket has closed, a new connection attempt
\* follows, and this recurs after each failed attempt: a closed current socket
\* is always eventually replaced by one that is connecting or open.
C12_ClosedSocketIsRetried ==
    WsIsClosed ~> (ws # 0 /\ wsocks[ws].state \in {"CONNECTING", "OPEN"})

\* the current socket closed unexpectedly and its reconnect timer is armed
C12_Witness == WsIsClosed /\ reconnects > teardownTimers

\* C14: a send made while the socket is not open is rejected and its
\* optimistic user entry is rolled back: the transcript after the click is
\* the transcript before it.
C14_RejectedSendIsRolledBack ==
    [][ \A text \in UserTexts :
            (SendClick(text) /\ ~(socket # 0 /\ socks[socket].state = "OPEN"))
                => messageHistory' = messageHistory
      ]_vars

\* C15: New chat takes a fresh session id, leaves an empty transcript with
\* no active stream and no idle timer, and replaces the socket by one
\* connected under the new session id.
C15_NewChatResetsAndReconnects ==
    [][ NewChat =>
            /\ sessionId' # sessionId
            /\ messageHistory' = <<>>
            /\ currentStreamingMessage' = 0
            /\ streamingTimeout' = 0
            /\ socket' # socket
            /\ socks'[socket'].session = sessionId'
      ]_vars

\* ----------------------------------------------------------------------
\* Properties of the parsers
\* ----------------------------------------------------------------------
\* C16: when handling a payload text fails (the handler logs the failure),
\* the payload degrades to a plain chunk carrying the payload text and that
\* is its only effect: no message or result block of another kind is left.
C16_FailureDegradesToPlainText ==
    [][ \A i \in DOMAIN wsocks :
            (WsEnvelope(i) /\ consoleErrors' > consoleErrors)
                => /\ messages' = AppendChunkTo(messages, inbound[delivered + 1].raw)
                   /\ toolResults' = toolResults
      ]_vars

\* the payload text the socket is about to deliver
NextEnvelope == inbound[delivered + 1]

\* C17: a payload that parses is handled by the first rule that matches, in
\* the order RAG complete, RAG partial, agent message (tool calls, else
\* content, else a plain chunk of the payload text), tool results, and a
\* plain chunk of the payload text when nothing matches; a payload with a
\* first agent message never has the effect of tool results.
C17_FirstMatchingRuleApplies ==
    [][ \A i \in DOMAIN wsocks :
            (WsEnvelope(i) /\ consoleErrors' = consoleErrors) =>
                LET e == NextEnvelope
                    agentMsg == e.agent.messages[1]
                IN
                IF e.rag.has /\ e.rag.messages /\ e.rag.mcontent # ""
                THEN messages' = AppendChunkTo(messages, e.rag.mcontent)
                ELSE IF e.rag.has /\ e.rag.partial /\ e.rag.content # ""
                THEN messages' = AppendChunkTo(messages, e.rag.content)
                ELSE IF e.agent.has /\ e.agent.messages # <<>>
                THEN /\ toolResults' = toolResults
                     /\ messages' =
                            IF agentMsg.tool_calls # <<>>
                            THEN Append(messages, Message("agent", Text(agentMsg.content),
                                                          agentMsg.tool_calls))
                            ELSE IF agentMsg.content # ""
                            THEN AppendChunkTo(messages, agentMsg.content)
                            ELSE AppendChunkTo(messages, e.raw)
                ELSE IF e.tools.has /\ e.tools.messages # <<>>
                THEN <<messages', toolResults'>> # <<messages, toolResults>>
                ELSE messages' = AppendChunkTo(messages, e.raw)
      ]_vars

\* the transcript ws.onmessage makes of the payload texts raws, delivered in
\* this order into an empty transcript
RECURSIVE LiveAll(_)
LiveAll(raws) ==
    IF raws = <<>> THEN Parsed(<<>>, [id \in ToolIds |-> <<>>], 0)
    ELSE LET init == LiveAll(SubSeq(raws, 1, Len(raws) - 1))
         IN OnMessageData(init.messages, init.toolResults, raws[Len(raws)])

\* C18: the messages loadMessages makes of the stored payload texts are the
\* messages (role, content, tool calls) that delivering the same texts
\* through the socket into an empty transcript makes.
C18_ReplayEqualsLive ==
    [][ LoadMessages =>
            messages' = LiveAll(SubSeq(inbound, 1, delivered)).messages ]_vars

\* C19: no payload text is lost silently: a delivery through the socket
\* changes the messages or the result blocks or is logged, and loadMessages
\* makes a message of every stored payload text or logs it.
C19_NoSilentLoss ==
    [][ /\ \A i \in DOMAIN wsocks :
               WsEnvelope(i) =>
                   \/ <<messages', toolResults'>> # <<messages, toolResults>>
                   \/ consoleErrors' > consoleErrors
        /\ LoadMessages =>
               \A k \in 1..delivered :
                   \/ ParseRaw(inbound[k]).messages # <<>>
                   \/ ParseRaw(inbound[k]).errors > 0
      ]_vars

\* ----------------------------------------------------------------------
\* Properties of the transcript
\* ----------------------------------------------------------------------
\* a is an initial part of b
IsPrefix(a, b) == Len(a) <= Len(b) /\ SubSeq(b, 1, Len(a)) = a

\* C20: apart from New chat, no step removes, replaces or reorders an entry
\* of the transcript: every entry stays at its place with its sender and its
\* text, and only the text of the active streaming entry may grow.
C20_TranscriptIsAppendOnly ==
    [][ \/ NewChat
        \/ /\ Len(messageHistory') >= Len(messageHistory)
           /\ \A k \in DOMAIN messageHistory :
                  /\ messageHistory'[k].sender = messageHistory[k].sender
                  /\ IF k = currentStreamingMessage
                     THEN IsPrefix(messageHistory[k].msg, messageHistory'[k].msg)
                     ELSE messageHistory'[k].msg = messageHistory[k].msg
      ]_vars

\* ----------------------------------------------------------------------
\* Properties of the tool calls
\* ----------------------------------------------------------------------
\* the ids of the tool calls of the agent turns of the transcript
CalledIds(msgs) ==
    {id \in ToolIds : \E k \in DOMAIN msgs :
        msgs[k].role = "agent" /\ \E j \in DOMAIN msgs[k].tool_calls : msgs[k].tool_calls[j] = id}

\* the results of the tool messages tm for the tool call id, as attached:
\* failed on status error, completed otherwise
AttachedResults(tm, id) ==
    LET own == SelectSeq(tm, LAMBDA m : m.tool_call_id = id)
    IN [k \in DOMAIN own |->
           [class |-> IF own[k].status = "error" THEN "error" ELSE "success",
            content |-> own[k].content]]

\* the payload text is a tool-call message
IsToolCalls(e) ==
    /\ e.json = "object" /\ ~e.rag.has
    /\ e.agent.has /\ e.agent.messages # <<>>
    /\ ~e.agent.messages[1].null /\ e.agent.messages[1].tool_calls # <<>>

\* the payload text is a tool-result message for tool calls of the transcript
IsMatchingResults(e, msgs) ==
    /\ e.json = "object" /\ ~e.rag.has /\ ~e.agent.has
    /\ e.tools.has /\ e.tools.messages # <<>>
    /\ \A j \in DOMAIN e.tools.messages :
           /\ ~e.tools.messages[j].null
           /\ e.tools.messages[j].tool_call_id \in CalledIds(msgs)

C22_EveryToolCallIsIndexed ==
    \A k \in DOMAIN messageHistory :
        (/\ messageHistory[k].sender = "agent"
         /\ IsJson(messageHistory[k].msg)
         /\ messageHistory[k].msg[1].kind = "calls")
            => \A j \in DOMAIN messageHistory[k].msg[1].ids :
                   GetElementById(chatBox, messageHistory[k].msg[1].ids[j]) # 0

\* C23: a transport failure leaves the transcript untouched: the close of a
\* socket and the reconnect it schedules change no message and no result
\* block.
C23_TransportFailureKeepsTranscript ==
    [][ /\ \A i \in DOMAIN wsocks :
               WsClose(i) => (messages' = messages /\ toolResults' = toolResults)
        /\ \A own \in BOOLEAN :
               ReconnectFires(own) => (messages' = messages /\ toolResults' = toolResults)
      ]_vars

\* the current socket has failed while the transcript holds an answer, and
\* its reconnect is scheduled
C23_Witness ==
    /\ WsIsClosed
    /\ reconnects > 0
    /\ messages # <<>>
    /\ messages[Len(messages)].role = "agent"

\* ----------------------------------------------------------------------
\* Properties of the session
\* ----------------------------------------------------------------------
\* C24: the stored session id and mode are the current ones at all times,
\* and a payload that is sent carries the current session id and mode.
C24_SessionAndModePersisted ==
    /\ localStorage.chat_session_id = sessionId
    /\ localStorage.chat_mode = currentMode
    /\ sent # NoPayload => (sent.session_id = sessionId /\ sent.mode = currentMode)

\* a message was sent after New chat
C24_Witness == sent # NoPayload /\ sent.session_id = 2 /\ sessionId = 2

C26_CreateUploadsAttachedFiles ==
    [][(createCalls' # createCalls /\ attachedFiles # <<>>) =>
          \E r \in uploads' : r \notin uploads /\ r.files = attachedFiles]_vars

\* C27: every entry of messageHistory that is marked streaming = true is
\* marked streaming = false in the end, in every execution in which armed
\* timers expire, also when the user sends a message, switches mode or
\* clicks new chat during the stream
C27_StreamingEntriesAreFinalized ==
    (StreamingEntries # {}) ~> (StreamingEntries = {})

\* ----------------------------------------------------------------------
\* Properties of the session change
\* ----------------------------------------------------------------------
\* C28: a /history response that was requested for an earlier session id
\* and arrives after new chat does not change the transcript of the new
\* session, in whatever order the outstanding responses arrive
C28_OldHistoryStaysOut ==
    [][ \A s \in histReqs, data \in HistoryData :
            (HistoryResponse(s, data) /\ s # sessionId) =>
                messageHistory' = messageHistory
      ]_vars

\* C29: whenever currentStreamingMessage is not null, the object it refers
\* to is an element of messageHistory
C29_StreamIsInTranscript ==
    currentStreamingMessage # 0 => currentStreamingMessage \in DOMAIN messageHistory

\* C30: every inbound socket message adds its payload to messageHistory
\* exactly once (as a new entry, or appended to the entry of the active
\* stream), also when renderMessages throws while the message is handled
C30_PayloadContributedOnce ==
    [][ \A i \in DOMAIN socks, p \in AskPayloads :
            (/\ currentStreamingMessage # Detached
             /\ \/ OnMessage(i, p)
                \/ \E again \in BOOLEAN : OnMessageRenderThrows(i, p, again)) =>
                Tokens(messageHistory') = Tokens(messageHistory) + 1
      ]_vars

C32_MessagesOfCurrentConversation ==
    (msgReqs = {} /\ IsServerConversation(currentConversation)) =>
        messages = ParseRawMessages(Stored(currentConversation)).messages

\* C37: currentConversation is null or an element of conversations
C37_CurrentIsListed ==
    currentConversation = 0 \/
        \E k \in DOMAIN conversations : conversations[k] = currentConversation

\* ----------------------------------------------------------------------
\* Properties of the sockets of the redesigned client
\* ----------------------------------------------------------------------
\* a socket of the redesigned client that is connecting or open
LiveWs(s) == s.state \in {"CONNECTING", "OPEN"}

\* C33: at most one socket made by setupWebSocket is connecting or open, it
\* is the current one, and a reconnect timer that expires while a socket is
\* connecting or open creates no socket, so that the timers of several close
\* events make one replacement only
C33_OneSocketOneReplacement ==
    [][ /\ \A i \in DOMAIN wsocks' : LiveWs(wsocks'[i]) => i = ws'
        /\ \A own \in BOOLEAN :
              (ReconnectFires(own) /\ \E i \in DOMAIN wsocks : LiveWs(wsocks[i])) =>
                  (wsocks' = wsocks /\ ws' = ws)
      ]_vars

\* the replacement is open while the timers of two close events are pending
C33_Witness ==
    /\ ws # 0
    /\ wsocks[ws].state = "OPEN"
    /\ reconnects = 2

\* C34: once a message has been sent and the answer of the agent has
\* arrived, isLoading returns to false without a call of stopGeneration
C34_LoadingEnds ==
    (isLoading /\ messages # <<>> /\ messages[Len(messages)].role = "agent") ~> ~isLoading

\* ----------------------------------------------------------------------
\* Properties of the send button
\* ----------------------------------------------------------------------
\* C35: after every click on send the button leaves its loading state in
\* the end, also when sendMessage found the socket not open
C35_ButtonLeavesLoading == sendBtnLoading ~> ~sendBtnLoading

\* C36: the socket in use is connected to /ws/ask whenever a vector store
\* is selected and to /ws/react otherwise, also after selectVectorStore has
\* changed the selection
C36_EndpointMatchesSelection ==
    (ws # 0 /\ LiveWs(wsocks[ws])) =>
        wsocks[ws].endpoint = IF activeVectorStore # "" THEN "/ws/ask" ELSE "/ws/react"

====
